---------------------------- MODULE Spec2Model ----------------------------
(***************************************************************************)
(* aproveitamento-botafogo: the ingestion pipeline of api/extrair_dados.py *)
(* (scraped rows -> cleaned rows -> SQLite upserts), the worker loop of    *)
(* api/worker.py and the read queries of api/api.py.                       *)
(*                                                                         *)
(* Conventions of the model                                                *)
(*  - a text that the code takes apart (split, replace, strip, to_numeric) *)
(*    is a sequence of one-character strings; a text the code only copies  *)
(*    or compares is a TLA+ string;                                        *)
(*  - a nullable column is <<>> (SQL NULL, Python None, pandas NaN/NaT) or *)
(*    <<v>>;                                                               *)
(*  - a calendar date is its day ordinal (a natural number) and the date   *)
(*    text of the site is the numeral of that ordinal;                     *)
(*    pd.to_datetime(errors="coerce") is the numeral parser below. ISO     *)
(*    date strings compare in SQLite as the ordinals compare.              *)
(***************************************************************************)
EXTENDS Integers, Sequences, FiniteSets, TLC

(***************************************************************************)
(* Bounds of the model.                                                    *)
(***************************************************************************)
MaxLote == 2

MaxExecucoes == 2

MaxPage == 3

MaxPageSize == 2

Null == <<>>

Val(x) == <<x>>

IsNull(c) == c = <<>>

(***************************************************************************)
(* Text helpers: Python's str operations used by the parser.               *)
(***************************************************************************)
Digitos == {"0", "1", "2", "3", "4", "5", "6", "7", "8", "9"}

DigitoValor(c) ==
  CASE c = "0" -> 0 [] c = "1" -> 1 [] c = "2" -> 2 [] c = "3" -> 3
    [] c = "4" -> 4 [] c = "5" -> 5 [] c = "6" -> 6 [] c = "7" -> 7
    [] c = "8" -> 8 [] c = "9" -> 9

\* `sep in txt`
Contem(txt, sep) == \E i \in 1..Len(txt) : txt[i] = sep

\* txt.split(sep)[0]
SplitPrimeiro(txt, sep) ==
  IF Contem(txt, sep)
  THEN LET i == CHOOSE k \in 1..Len(txt) :
                  txt[k] = sep /\ \A j \in 1..(k - 1) : txt[j] # sep
       IN SubSeq(txt, 1, i - 1)
  ELSE txt

\* txt.split(sep)[-1]
SplitUltimo(txt, sep) ==
  IF Contem(txt, sep)
  THEN LET i == CHOOSE k \in 1..Len(txt) :
                  txt[k] = sep /\ \A j \in (k + 1)..Len(txt) : txt[j] # sep
       IN SubSeq(txt, i + 1, Len(txt))
  ELSE txt

\* txt.replace(c, "") for a one-character c
RECURSIVE RemoveChar(_, _)
RemoveChar(txt, c) ==
  IF txt = <<>> THEN <<>>
  ELSE IF Head(txt) = c THEN RemoveChar(Tail(txt), c)
       ELSE <<Head(txt)>> \o RemoveChar(Tail(txt), c)

\* a parser that leaves the ".)" in place
RemovePontoParenNada(txt) == txt

\* txt.replace(".)", "")
RECURSIVE RemovePontoParen(_)
RemovePontoParen(txt) ==
  IF Len(txt) < 2 THEN txt
  ELSE IF txt[1] = "." /\ txt[2] = ")" THEN RemovePontoParen(SubSeq(txt, 3, Len(txt)))
       ELSE <<Head(txt)>> \o RemovePontoParen(Tail(txt))

\* txt.strip()
RECURSIVE Strip(_)
Strip(txt) ==
  IF txt = <<>> THEN <<>>
  ELSE IF Head(txt) = " " THEN Strip(Tail(txt))
       ELSE IF txt[Len(txt)] = " " THEN Strip(SubSeq(txt, 1, Len(txt) - 1))
            ELSE txt

RECURSIVE Numeral(_)
Numeral(txt) ==
  IF txt = <<>> THEN 0
  ELSE 10 * Numeral(SubSeq(txt, 1, Len(txt) - 1)) + DigitoValor(txt[Len(txt)])

\* pd.to_numeric(errors="coerce") on one cell: None and non-numerals give NaN
to_numeric(c) ==
  IF IsNull(c) THEN Null
  ELSE IF c[1] # <<>> /\ \A i \in 1..Len(c[1]) : c[1][i] \in Digitos
       THEN Val(Numeral(c[1]))
       ELSE Null

\* pd.to_datetime(errors="coerce", dayfirst=True).dt.date on one cell: NaT when
\* the text is no date
to_datetime(txt) ==
  IF txt # <<>> /\ \A i \in 1..Len(txt) : txt[i] \in Digitos
  THEN Val(Numeral(txt))
  ELSE Null


(***************************************************************************)
(* extrair_dados.get_partidas: one scraped table row.                      *)
(* A raw row is [competicao, cols]: the headline of its box and the texts  *)
(* of its <td> cells: rodada, data, horario, local, ranking, (unused),     *)
(* adversario, sistema, publico, resultado.                                *)
(***************************************************************************)
\* (cols + [None]*10)[:10], one position of it
Coluna(cols, i) == IF i <= Len(cols) THEN Val(cols[i]) ELSE Null

\* Python truthiness of an optional text: None and "" are falsy
Truthy(c) == ~IsNull(c) /\ c[1] # <<>>

\* the row is kept by `if len(cols) < 9: continue`
TemColunas(raw) == Len(raw.cols) >= 9

\* resultado.split(":") on None raises AttributeError: the branch taken when
\* local == "C" does not test resultado first
LinhaLevanta(raw) ==
  TemColunas(raw) /\ raw.cols[4] = "C" /\ IsNull(Coluna(raw.cols, 10))

TemPlacar(resultado) == Truthy(resultado) /\ Contem(resultado[1], ":")

\* the dict appended to `linhas`
LinhaExtraida(raw, hoje) ==
  LET cols      == raw.cols
      data      == cols[2]
      local     == cols[4]
      ranking   == cols[5]
      adv       == cols[7]
      resultado == Coluna(cols, 10)
  IN [ competicao |-> raw.competicao,
       rodada     |-> cols[1],
       dia        |-> IF Contem(data, " ") THEN SplitPrimeiro(data, " ") ELSE data,
       data       |-> IF Contem(data, " ") THEN SplitUltimo(data, " ") ELSE data,
       horario    |-> cols[3],
       local      |-> local,
       ranking    |-> IF ranking # <<>>
                      THEN Val(RemoveChar(RemoveChar(RemoveChar(ranking, "."), "("), ")"))
                      ELSE Null,
       adversario |-> IF adv # <<>> THEN Val(Strip(SplitPrimeiro(adv, "("))) ELSE Null,
       ranking_adversario |->
                      IF adv # <<>> /\ Contem(adv, "(")
                      THEN Val(Strip(RemovePontoParen(SplitUltimo(adv, "("))))
                      ELSE Null,
       sistema    |-> cols[8],
       publico    |-> cols[9],
       gols       |-> IF local = "C" THEN Val(SplitPrimeiro(resultado[1], ":"))
                      ELSE IF TemPlacar(resultado)
                           THEN Val(SplitUltimo(resultado[1], ":"))
                           ELSE Null,
       gols_adversario |->
                      IF local = "C" THEN Val(SplitUltimo(resultado[1], ":"))
                      ELSE IF TemPlacar(resultado)
                           THEN Val(SplitPrimeiro(resultado[1], ":"))
                           ELSE Null,
       resultado  |-> resultado,
       dt_coleta  |-> hoje ]

\* the rows of `linhas`, in table order (rows with fewer than 9 cells skipped)
RECURSIVE Linhas(_, _)
Linhas(lote, hoje) ==
  IF lote = <<>> THEN <<>>
  ELSE IF TemColunas(Head(lote))
       THEN <<LinhaExtraida(Head(lote), hoje)>> \o Linhas(Tail(lote), hoje)
       ELSE Linhas(Tail(lote), hoje)

MetaCompeticao == "Os ultimos  jogos"

PlacarVazio == <<"-", ":", "-">>

\* the cleaning step forgetting its filter on the placeholder score
LimpaSemPlacarVazio(l) == l.competicao # MetaCompeticao

\* "# Limpeza": the three filters
Limpa(l) ==
  /\ l.competicao # MetaCompeticao
  /\ l.resultado # Val(PlacarVazio)
  /\ TRUE \* ~df["data"].isnull(): data is a str here, never null

\* a lambda without its pd.notnull test
ResultadoSemNotnull(gols, gols_adversario) ==
  IF ~IsNull(gols) /\ ~IsNull(gols_adversario) /\ gols[1] > gols_adversario[1]
  THEN Val("V")
  ELSE IF gols = gols_adversario THEN Val("E") ELSE Val("D")

\* the lambda of df.apply: V / E / D, None when a score is missing
Resultado(gols, gols_adversario) ==
  IF ~IsNull(gols) /\ ~IsNull(gols_adversario) /\ gols[1] > gols_adversario[1]
  THEN Val("V")
  ELSE IF ~IsNull(gols) /\ ~IsNull(gols_adversario)
       THEN IF gols[1] = gols_adversario[1] THEN Val("E") ELSE Val("D")
       ELSE Null

\* "# Conversão de tipos" on one row
Converte(l) ==
  LET g == to_numeric(l.gols)
      a == to_numeric(l.gols_adversario)
  IN [ l EXCEPT !.data = to_datetime(l.data),
                !.publico = to_numeric(Val(RemoveChar(l.publico, "."))),
                !.gols = g,
                !.gols_adversario = a,
                !.ranking = to_numeric(l.ranking),
                !.ranking_adversario = to_numeric(l.ranking_adversario),
                !.resultado = Resultado(g, a) ]

RECURSIVE LimpaConverte(_)
LimpaConverte(linhas) ==
  IF linhas = <<>> THEN <<>>
  ELSE IF Limpa(Head(linhas))
       THEN <<Converte(Head(linhas))>> \o LimpaConverte(Tail(linhas))
       ELSE LimpaConverte(Tail(linhas))

(***************************************************************************)
(* What get_partidas does with a batch before it opens the database:       *)
(*   "levanta"  an exception leaves get_partidas (AttributeError of        *)
(*              None.split, KeyError of df["competicao"] on a frame with   *)
(*              no column, ValueError of the df.apply assignment on an     *)
(*              empty frame in the pandas versions that raise it);         *)
(*   "retorna"  an early return (no table, or no row left);                *)
(*   "salva"    df holds rows to upsert.                                   *)
(* extraidas is the count of "Total de partidas extraidas", when printed.  *)
(* apply_levanta is the pandas version's behaviour on an empty frame.      *)
(***************************************************************************)
Extrai(lote, hoje, apply_levanta) ==
  IF \E i \in 1..Len(lote) : LinhaLevanta(lote[i])
  THEN [fim |-> "levanta", df |-> <<>>, extraidas |-> Null]
  ELSE IF lote = <<>>
  THEN [fim |-> "retorna", df |-> <<>>, extraidas |-> Null]
  ELSE LET linhas == Linhas(lote, hoje) IN
       IF linhas = <<>>
       THEN [fim |-> "levanta", df |-> <<>>, extraidas |-> Val(0)]
       ELSE LET df == LimpaConverte(linhas) IN
            IF df = <<>>
            THEN [fim |-> IF apply_levanta THEN "levanta" ELSE "retorna",
                  df |-> <<>>, extraidas |-> Val(Len(linhas))]
            ELSE [fim |-> "salva", df |-> df, extraidas |-> Val(Len(linhas))]

(***************************************************************************)
(* The table partidas: a sequence of rows, row i holding id i              *)
(* (INTEGER PRIMARY KEY AUTOINCREMENT, no row is ever deleted).            *)
(***************************************************************************)
\* SQL equality inside a UNIQUE index: a NULL equals nothing, itself included
SqlIgual(a, b) == ~IsNull(a) /\ ~IsNull(b) /\ a = b

\* a table created without its UNIQUE constraint: no insert ever conflicts
ConflitoPartidaSemUnique(r, l) == FALSE

\* the conflict target UNIQUE(competicao, rodada, data)
ConflitoPartida(r, l) ==
  /\ r.competicao = l.competicao
  /\ r.rodada = l.rodada
  /\ SqlIgual(r.data, l.data)

\* a driver that binds NaT as NULL instead of raising
BindNuncaLevanta(l) == FALSE

\* sqlite3 cannot bind pandas' NaT: cursor.execute raises on such a row
BindLevanta(l) == IsNull(l.data)

\* ON CONFLICT(competicao, rodada, data) DO UPDATE SET ...: the columns listed
AtualizaPartida(r, l) ==
  [ r EXCEPT !.horario = l.horario,
             !.local = l.local,
             !.ranking = l.ranking,
             !.adversario = l.adversario,
             !.ranking_adversario = l.ranking_adversario,
             !.sistema = l.sistema,
             !.publico = l.publico,
             !.gols = l.gols,
             !.gols_adversario = l.gols_adversario,
             !.resultado = l.resultado,
             !.dt_coleta = l.dt_coleta ]

InserePartida(tab, l) ==
  Append(tab, [ id |-> Len(tab) + 1,
                competicao |-> l.competicao, rodada |-> l.rodada, dia |-> l.dia,
                data |-> l.data, horario |-> l.horario, local |-> l.local,
                ranking |-> l.ranking, adversario |-> l.adversario,
                ranking_adversario |-> l.ranking_adversario,
                sistema |-> l.sistema, publico |-> l.publico, gols |-> l.gols,
                gols_adversario |-> l.gols_adversario,
                resultado |-> l.resultado, dt_coleta |-> l.dt_coleta ])

\* one cursor.execute of the INSERT ... ON CONFLICT statement (l binds)
UpsertPartida(tab, l) ==
  IF \E i \in 1..Len(tab) : ConflitoPartida(tab[i], l)
  THEN [ i \in 1..Len(tab) |->
           IF ConflitoPartida(tab[i], l) THEN AtualizaPartida(tab[i], l) ELSE tab[i] ]
  ELSE InserePartida(tab, l)

(***************************************************************************)
(* extrair_dados.get_tecnicos. A raw row is the texts of its <td> cells;   *)
(* cells 3, 4, 6, 7 are nome, dt_nascimento, dt_inicio, dt_fim.            *)
(***************************************************************************)
TemColunasTecnico(cols) == Len(cols) >= 7

RECURSIVE Dados(_)
Dados(lote) ==
  IF lote = <<>> THEN <<>>
  ELSE IF TemColunasTecnico(Head(lote))
       THEN <<[ nome |-> Head(lote)[3],
                dt_nascimento |-> Head(lote)[4],
                dt_inicio |-> Head(lote)[6],
                dt_fim |-> Head(lote)[7] ]>> \o Dados(Tail(lote))
       ELSE Dados(Tail(lote))

\* pd.to_datetime("2023-07-18").date(), as a day ordinal
DataCorte == 2

NomeExcluido == "Pedro Martins"

\* "# Conversão de datas" and dt_coleta on one row
ConverteTecnico(d, hoje) ==
  [ nome |-> d.nome,
    dt_nascimento |-> to_datetime(d.dt_nascimento),
    dt_inicio |-> to_datetime(d.dt_inicio),
    dt_fim |-> to_datetime(d.dt_fim),
    dt_coleta |-> hoje ]

\* "# Filtros": a NaT dt_inicio compares False
FiltroTecnico(t) ==
  /\ ~IsNull(t.dt_inicio) /\ t.dt_inicio[1] >= DataCorte
  /\ t.nome # NomeExcluido

RECURSIVE FiltraTecnicos(_, _)
FiltraTecnicos(dados, hoje) ==
  IF dados = <<>> THEN <<>>
  ELSE LET t == ConverteTecnico(Head(dados), hoje) IN
       IF FiltroTecnico(t)
       THEN <<t>> \o FiltraTecnicos(Tail(dados), hoje)
       ELSE FiltraTecnicos(Tail(dados), hoje)

\* get_tecnicos before it opens the database: KeyError of df["dt_inicio"] on a
\* frame built from no row, the early return on an empty frame, or rows to save
ExtraiTecnicos(lote, hoje) ==
  LET dados == Dados(lote) IN
  IF dados = <<>>
  THEN [fim |-> "levanta", df |-> <<>>]
  ELSE LET df == FiltraTecnicos(dados, hoje) IN
       IF df = <<>> THEN [fim |-> "retorna", df |-> <<>>]
       ELSE [fim |-> "salva", df |-> df]

\* the conflict target UNIQUE(nome, dt_inicio)
ConflitoTecnico(r, t) == r.nome = t.nome /\ SqlIgual(r.dt_inicio, t.dt_inicio)

AtualizaTecnico(r, t) ==
  [ r EXCEPT !.dt_nascimento = t.dt_nascimento,
             !.dt_fim = t.dt_fim,
             !.dt_coleta = t.dt_coleta ]

InsereTecnico(tab, t) ==
  Append(tab, [ id |-> Len(tab) + 1, nome |-> t.nome,
                dt_nascimento |-> t.dt_nascimento, dt_inicio |-> t.dt_inicio,
                dt_fim |-> t.dt_fim, dt_coleta |-> t.dt_coleta ])

UpsertTecnico(tab, t) ==
  IF \E i \in 1..Len(tab) : ConflitoTecnico(tab[i], t)
  THEN [ i \in 1..Len(tab) |->
           IF ConflitoTecnico(tab[i], t) THEN AtualizaTecnico(tab[i], t) ELSE tab[i] ]
  ELSE InsereTecnico(tab, t)

(***************************************************************************)
(* The whole effect of one call on the committed table: every upsert of    *)
(* the call runs in one transaction of its own connection, committed by    *)
(* the single conn.commit() after the loop; an exception closes the        *)
(* connection first, which rolls the transaction back.                     *)
(***************************************************************************)
\* a connection whose close() commits the open transaction
FechaComCommit(commitada, aberta) == aberta

\* get_db_connection's finally: conn.close() with a transaction open discards
\* it, the database holds the committed table
Fecha(commitada, aberta) == commitada

RECURSIVE ExecutaPartidas(_, _)
ExecutaPartidas(tab, df) ==
  IF df = <<>> THEN [ok |-> TRUE, tab |-> tab]
  ELSE IF BindLevanta(Head(df)) THEN [ok |-> FALSE, tab |-> tab]
       ELSE ExecutaPartidas(UpsertPartida(tab, Head(df)), Tail(df))

EfeitoPartidas(tab, linhas, hoje) ==
  LET e == Extrai(linhas, hoje, TRUE) IN
  IF e.fim # "salva" THEN tab
  ELSE LET s == ExecutaPartidas(tab, e.df) IN IF s.ok THEN s.tab ELSE tab

RECURSIVE ExecutaTecnicos(_, _)
ExecutaTecnicos(tab, df) ==
  IF df = <<>> THEN tab
  ELSE ExecutaTecnicos(UpsertTecnico(tab, Head(df)), Tail(df))

EfeitoTecnicos(tab, linhas, hoje) ==
  LET e == ExtraiTecnicos(linhas, hoje) IN
  IF e.fim # "salva" THEN tab ELSE ExecutaTecnicos(tab, e.df)

(***************************************************************************)
(* Scraped rows the model feeds to the pipeline.                           *)
(***************************************************************************)
\* home win 3:1, weekday token "sab", day 5
pCasa ==
  [ competicao |-> "Serie A",
    cols |-> << "1", <<"s", "a", "b", " ", "5">>, "16:00", "C", <<"(", "3", ".", ")">>,
                "", <<"P", "a", "l", " ", "(", "2", ".", ")">>, "4-3-3",
                <<"1", ".", "2", "0", "0">>, <<"3", ":", "1">> >> ]

\* the same fixture (competicao, rodada, day) scraped with every other cell
\* different: away, so 3:1 is a defeat
pFora ==
  [ competicao |-> "Serie A",
    cols |-> << "1", <<"d", "o", "m", " ", "5">>, "18:30", "F", <<>>,
                "", <<"P", "a", "l">>, "4-4-2", <<"x">>, <<"3", ":", "1">> >> ]

\* another competition on the same day 5, away, the score cell missing
pSemPlacar ==
  [ competicao |-> "Copa",
    cols |-> << "1", <<"5">>, "21:00", "F", <<"(", "1", ".", ")">>,
                "", <<"F", "l", "a", " ", "(", "x", ".", ")">>, "4-3-3", <<"9", "0">> >> ]

\* the fixture of the day after, home draw 1:1
pEmpate ==
  [ competicao |-> "Serie A",
    cols |-> << "2", <<"q", "u", "a", " ", "6">>, "20:00", "C", <<"(", "2", ".", ")">>,
                "", <<"F", "l", "a", " ", "(", "1", ".", ")">>, "4-3-3",
                <<"8", "0", "0">>, <<"1", ":", "1">> >> ]

\* fewer than 9 cells
pCurta == [ competicao |-> "Serie A", cols |-> << "3", <<"9">>, "16:00" >> ]

\* home, the score cell missing: resultado is None and local == "C"
pCasaSemPlacar ==
  [ competicao |-> "Serie A",
    cols |-> << "4", <<"8">>, "16:00", "C", <<>>, "", <<"S", "a", "n">>, "4-3-3", <<>> >> ]

\* the date text is no date
pSemData ==
  [ competicao |-> "Serie A",
    cols |-> << "5", <<"q", "u", "a", " ", "?">>, "16:00", "F", <<>>, "",
                <<"S", "a", "n">>, "4-3-3", <<>>, <<"0", ":", "2">> >> ]

\* not played yet
pAdiado ==
  [ competicao |-> "Serie A",
    cols |-> << "6", <<"9">>, "16:00", "C", <<>>, "", <<"S", "a", "n">>, "4-3-3",
                <<>>, <<"-", ":", "-">> >> ]

\* the score cell holds a text that is no score
pWO ==
  [ competicao |-> "Serie A",
    cols |-> << "7", <<"9">>, "16:00", "C", <<>>, "", <<"S", "a", "n">>, "4-3-3",
                <<>>, <<"W", "O">> >> ]

\* the fixture of pEmpate scraped away with one side of the score unreadable
pMeioPlacar ==
  [ competicao |-> "Serie A",
    cols |-> << "2", <<"q", "u", "a", " ", "6">>, "20:00", "F", <<>>, "",
                <<"F", "l", "a">>, "4-3-3", <<>>, <<"2", ":", "x">> >> ]

\* a row of the "recent games" box
pMeta ==
  [ competicao |-> MetaCompeticao,
    cols |-> << "1", <<"5">>, "16:00", "C", <<>>, "", <<"P", "a", "l">>, "4-3-3",
                <<>>, <<"3", ":", "1">> >> ]

LinhasPartidas ==
  { pCasa, pFora, pSemPlacar, pEmpate, pCurta, pCasaSemPlacar, pSemData, pAdiado, pWO,
    pMeioPlacar, pMeta }

\* tenure rows: cells 3, 4, 6, 7 are nome, dt_nascimento, dt_inicio, dt_fim
tArtur == << "", "", "Artur", <<"1">>, "", <<"3">>, <<"5">> >>

\* the same tenure scraped while still open, birth date unreadable
tArturAberto == << "", "", "Artur", <<"?">>, "", <<"3">>, <<"-">> >>

\* starts the day Artur's tenure ends
tBruno == << "", "", "Bruno", <<"1">>, "", <<"5">>, <<>> >>

\* starts the day after, while Bruno's tenure is open
tCarlos == << "", "", "Carlos", <<"1">>, "", <<"6">>, <<>> >>

\* starts before the cutoff
tAntigo == << "", "", "Luis", <<"1">>, "", <<"1">>, <<"2">> >>

tExcluido == << "", "", NomeExcluido, <<"1">>, "", <<"4">>, <<"4">> >>

tCurta == << "", "", "Caio" >>

tSemInicio == << "", "", "Davi", <<"1">>, "", <<"-">>, <<>> >>

\* the site lists an end date before the start date
tInvertido == << "", "", "Enzo", <<"1">>, "", <<"5">>, <<"3">> >>

LinhasTecnicos ==
  { tArtur, tArturAberto, tBruno, tAntigo, tExcluido, tCurta, tSemInicio, tInvertido }

\* the batches of at most n rows over a set of rows
RECURSIVE SeqsAte(_, _)
SeqsAte(S, n) ==
  IF n = 0 THEN { <<>> }
  ELSE LET menores == SeqsAte(S, n - 1) IN
       menores \cup { Append(q, x) : q \in { m \in menores : Len(m) = n - 1 }, x \in S }

(***************************************************************************)
(* State.                                                                  *)
(***************************************************************************)
VARIABLES
  partidas,   \* the committed table partidas
  tecnicos,   \* the committed table tecnicos
  pc,         \* where the running call of extrair_dados is
  lote,       \* [tipo, linhas]: the rows the site serves to that call
  fila,       \* the rows of df not yet executed
  tx,         \* the table as the call's own connection sees it (uncommitted)
  impresso,   \* what the call has printed: [extraidas, atualizadas, rejeitadas]
  hoje,       \* date.today()
  execucao,   \* how many calls have started
  resp,       \* the response of the API in flight
  coleta      \* the pages of /partidas a client walking pages 1, 2, ... holds

vars == << partidas, tecnicos, pc, lote, fila, tx, impresso, hoje, execucao, resp, coleta >>

NadaImpresso == [extraidas |-> Null, atualizadas |-> Null, rejeitadas |-> Null]

SemResposta == [rota |-> "nenhuma"]

SemColeta == [page_size |-> 0, competicao |-> Null, proxima |-> 1, paginas |-> 0,
              linhas |-> <<>>]

(***************************************************************************)
(* extrair_dados.get_partidas, step by step.                               *)
(***************************************************************************)
\* lines 70-150: fetch, parse, clean, convert; then the connection opens
get_partidas ==
  /\ pc = "get_partidas"
  /\ \E apply_levanta \in BOOLEAN :
       LET e == Extrai(lote.linhas, hoje, apply_levanta) IN
       /\ pc' = CASE e.fim = "levanta" -> "levantou"
                  [] e.fim = "retorna" -> "fim"
                  [] OTHER -> "salva_partidas"
       /\ fila' = e.df
       /\ impresso' = [NadaImpresso EXCEPT !.extraidas = e.extraidas]
  /\ tx' = partidas
  /\ UNCHANGED << partidas, tecnicos, lote, hoje, execucao, resp, coleta >>

\* one iteration of `for _, row in df.iterrows(): cursor.execute(...)`
executa_partida ==
  /\ pc = "salva_partidas"
  /\ fila # <<>>
  /\ IF BindLevanta(Head(fila))
     THEN /\ pc' = "levantou"
          /\ partidas' = Fecha(partidas, tx)
          /\ tx' = partidas'
          /\ fila' = <<>>
     ELSE /\ tx' = UpsertPartida(tx, Head(fila))
          /\ fila' = Tail(fila)
          /\ pc' = pc
          /\ partidas' = partidas
  /\ UNCHANGED << tecnicos, lote, impresso, hoje, execucao, resp, coleta >>

\* conn.commit() and the final print
commit_partidas ==
  /\ pc = "salva_partidas"
  /\ fila = <<>>
  /\ partidas' = tx
  /\ impresso' = [impresso EXCEPT
                    !.atualizadas = Val(Len(LimpaConverte(Linhas(lote.linhas, hoje))))]
  /\ pc' = "fim"
  /\ UNCHANGED << tecnicos, lote, fila, tx, hoje, execucao, resp, coleta >>

(***************************************************************************)
(* extrair_dados.get_tecnicos, step by step.                               *)
(***************************************************************************)
get_tecnicos ==
  /\ pc = "get_tecnicos"
  /\ LET e == ExtraiTecnicos(lote.linhas, hoje) IN
     /\ pc' = CASE e.fim = "levanta" -> "levantou"
                [] e.fim = "retorna" -> "fim"
                [] OTHER -> "salva_tecnicos"
     /\ fila' = e.df
  /\ tx' = tecnicos
  /\ impresso' = NadaImpresso
  /\ UNCHANGED << partidas, tecnicos, lote, hoje, execucao, resp, coleta >>

executa_tecnico ==
  /\ pc = "salva_tecnicos"
  /\ fila # <<>>
  /\ tx' = UpsertTecnico(tx, Head(fila))
  /\ fila' = Tail(fila)
  /\ UNCHANGED << partidas, tecnicos, pc, lote, impresso, hoje, execucao, resp, coleta >>

commit_tecnicos ==
  /\ pc = "salva_tecnicos"
  /\ fila = <<>>
  /\ tecnicos' = tx
  /\ impresso' = [impresso EXCEPT !.atualizadas = Val(Len(FiltraTecnicos(Dados(lote.linhas), hoje)))]
  /\ pc' = "fim"
  /\ UNCHANGED << partidas, lote, fila, tx, hoje, execucao, resp, coleta >>

(***************************************************************************)
(* SpecIngest: the site serves the same rows day after day; the same       *)
(* function of extrair_dados is called once a day on it, on a database     *)
(* that an earlier call on other rows has filled.                          *)
(***************************************************************************)
LotesAnteriores == SeqsAte(LinhasPartidas, 1)

LotesAnterioresTecnicos == SeqsAte(LinhasTecnicos, 1)

Chamada(tipo) == IF tipo = "partidas" THEN "get_partidas" ELSE "get_tecnicos"

InitIngest ==
  /\ \/ \E l0 \in LotesAnteriores, l \in SeqsAte(LinhasPartidas, MaxLote) :
          /\ partidas = EfeitoPartidas(<<>>, l0, 0)
          /\ tecnicos = <<>>
          /\ lote = [tipo |-> "partidas", linhas |-> l]
     \/ \E l0 \in LotesAnterioresTecnicos, l \in SeqsAte(LinhasTecnicos, MaxLote) :
          /\ partidas = <<>>
          /\ tecnicos = EfeitoTecnicos(<<>>, l0, 0)
          /\ lote = [tipo |-> "tecnicos", linhas |-> l]
  /\ pc = Chamada(lote.tipo)
  /\ fila = <<>>
  /\ tx = <<>>
  /\ impresso = NadaImpresso
  /\ hoje = 1
  /\ execucao = 1
  /\ resp = SemResposta
  /\ coleta = SemColeta

\* the next day's call
nova_chamada ==
  /\ pc \in {"fim", "levantou"}
  /\ execucao < MaxExecucoes
  /\ execucao' = execucao + 1
  /\ hoje' = hoje + 1
  /\ pc' = Chamada(lote.tipo)
  /\ impresso' = NadaImpresso
  /\ UNCHANGED << partidas, tecnicos, lote, fila, tx, resp, coleta >>

NextIngest ==
  \/ get_partidas
  \/ executa_partida
  \/ commit_partidas
  \/ get_tecnicos
  \/ executa_tecnico
  \/ commit_tecnicos
  \/ nova_chamada

SpecIngest == InitIngest /\ [][NextIngest]_vars

(***************************************************************************)
(* api/api.py: the SQL of the read queries.                                *)
(* SQL comparisons are three-valued: "T", "F", or "N" when an operand is   *)
(* NULL; a join or a WHERE keeps a row only on "T".                        *)
(***************************************************************************)
SqlLe(a, b) == IF IsNull(a) \/ IsNull(b) THEN "N" ELSE IF a[1] <= b[1] THEN "T" ELSE "F"

SqlGe(a, b) == IF IsNull(a) \/ IsNull(b) THEN "N" ELSE IF a[1] >= b[1] THEN "T" ELSE "F"

\* a tenure's end compared with >, as a join written with a strict bound would
SqlGt(a, b) == IF IsNull(a) \/ IsNull(b) THEN "N" ELSE IF a[1] > b[1] THEN "T" ELSE "F"

SqlAnd(x, y) ==
  IF x = "F" \/ y = "F" THEN "F" ELSE IF x = "T" /\ y = "T" THEN "T" ELSE "N"

SqlOr(x, y) ==
  IF x = "T" \/ y = "T" THEN "T" ELSE IF x = "F" /\ y = "F" THEN "F" ELSE "N"

SqlIsNull(a) == IF IsNull(a) THEN "T" ELSE "F"

\* the join written with an exclusive end bound
AtivoFimExclusivo(t, p) ==
  SqlAnd(SqlLe(t.dt_inicio, p.data),
         SqlOr(SqlIsNull(t.dt_fim), SqlGt(t.dt_fim, p.data))) = "T"

\* ON t.dt_inicio <= p.data AND (t.dt_fim IS NULL OR t.dt_fim >= p.data)
Ativo(t, p) ==
  SqlAnd(SqlLe(t.dt_inicio, p.data),
         SqlOr(SqlIsNull(t.dt_fim), SqlGe(t.dt_fim, p.data))) = "T"

\* A joined row is <<id of the partida, id of the tecnico>>, the second 0 for
\* the NULL tecnico of a LEFT JOIN row without a match.
InnerJoin(P, Tc) ==
  { par \in (1..Len(P)) \X (1..Len(Tc)) : Ativo(Tc[par[2]], P[par[1]]) }

LeftJoin(P, Tc) ==
  InnerJoin(P, Tc) \cup
  { <<i, 0>> : i \in { k \in 1..Len(P) : \A j \in 1..Len(Tc) : ~Ativo(Tc[j], P[k]) } }

\* the model's calendar: DiasPorAno day ordinals to a year, day 0 in AnoBase
DiasPorAno == 6

AnoBase == 2023

\* strftime('%Y', data), as a number
Ano(data) == IF IsNull(data) THEN Null ELSE Val(AnoBase + (data[1] \div DiasPorAno))

\* the sort key of ORDER BY data DESC: NULL sorts below every value
ChaveData(P, par) == IF IsNull(P[par[1]].data) THEN -1 ELSE P[par[1]].data[1]

\* Every order ORDER BY p.data DESC may return the joined rows R in: SQL leaves
\* the order of rows with equal dates unspecified.
RECURSIVE OrdensPorData(_, _)
OrdensPorData(P, R) ==
  IF R = {} THEN { <<>> }
  ELSE UNION { { <<x>> \o s : s \in OrdensPorData(P, R \ {x}) } :
               x \in { y \in R : \A z \in R : ChaveData(P, z) <= ChaveData(P, y) } }

\* LIMIT page_size OFFSET offset
Pagina(ord, page_size, offset) ==
  SubSeq(ord, offset + 1, IF offset + page_size < Len(ord) THEN offset + page_size ELSE Len(ord))

\* the SELECT list of the listings: p's columns, t.id AS tecnico_id, t.nome AS tecnico
LinhaListada(P, Tc, par) ==
  LET r == P[par[1]] IN
  [ id |-> r.id, data |-> r.data, dia |-> r.dia, competicao |-> r.competicao,
    rodada |-> r.rodada, adversario |-> r.adversario, local |-> r.local,
    gols |-> r.gols, gols_adversario |-> r.gols_adversario, resultado |-> r.resultado,
    publico |-> r.publico, ranking |-> r.ranking,
    ranking_adversario |-> r.ranking_adversario,
    tecnico_id |-> IF par[2] = 0 THEN Null ELSE Val(Tc[par[2]].id),
    tecnico |-> IF par[2] = 0 THEN Null ELSE Val(Tc[par[2]].nome) ]

Listadas(P, Tc, pares) == [ k \in 1..Len(pares) |-> LinhaListada(P, Tc, pares[k]) ]

\* (total + page_size - 1) // page_size if total else 0
TotalPaginas(total, page_size) ==
  IF total # 0 THEN (total + page_size - 1) \div page_size ELSE 0

(***************************************************************************)
(* The aggregates of /estatisticas and /estatisticas/tecnico/{id}.         *)
(* A percentage is kept in hundredths: 6667 is 66.67.                      *)
(***************************************************************************)
\* the statistics queries without their WHERE p.resultado IS NOT NULL
ComResultadoSemFiltro(P, R) == R

\* WHERE p.resultado IS NOT NULL
ComResultado(P, R) == { par \in R : ~IsNull(P[par[1]].resultado) }

\* COUNT(*) of the rows whose resultado is res
Conta(P, R, res) == Cardinality({ par \in R : P[par[1]].resultado = Val(res) })

\* SUM(col) over the rows R: NULL when no row holds a value
RECURSIVE Soma(_, _, _)
Soma(P, R, col) ==
  IF R = {} THEN Null
  ELSE LET par   == CHOOSE x \in R : TRUE
           resto == Soma(P, R \ {par}, col)
           v     == P[par[1]][col]
       IN IF IsNull(v) THEN resto
          ELSE IF IsNull(resto) THEN v ELSE Val(v[1] + resto[1])

\* SUM(CASE ... END) over R: NULL on no row
SomaCasos(R, n) == IF R = {} THEN Null ELSE Val(n)

\* points counted 2 for a win
PontosVitoriaDois(v, e) == 2 * v + e

\* SUM(CASE WHEN 'V' THEN 3 WHEN 'E' THEN 1 ELSE 0 END)
Pontos(v, e) == 3 * v + e

\* a percentage that reads 0 where the division has no value
AproveitamentoZero(pontos, possiveis) ==
  IF IsNull(pontos) \/ possiveis = 0 THEN Val(0)
  ELSE Val((2 * 10000 * pontos[1] + possiveis) \div (2 * possiveis))

\* ROUND(pontos * 100.0 / (jogos * 3), 2) in hundredths; NULL on a NULL operand
\* and on a division by zero
Aproveitamento(pontos, possiveis) ==
  IF IsNull(pontos) \/ possiveis = 0 THEN Null
  ELSE Val((2 * 10000 * pontos[1] + possiveis) \div (2 * possiveis))

\* the aggregate columns over the joined rows R of one group
Agrega(P, R) ==
  LET v  == Conta(P, R, "V")
      e  == Conta(P, R, "E")
      d  == Conta(P, R, "D")
      pt == SomaCasos(R, Pontos(v, e))
      gm == Soma(P, R, "gols")
      gs == Soma(P, R, "gols_adversario")
  IN [ jogos |-> Cardinality(R),
       vitorias |-> SomaCasos(R, v),
       empates |-> SomaCasos(R, e),
       derrotas |-> SomaCasos(R, d),
       pontos_conquistados |-> pt,
       pontos_possiveis |-> Cardinality(R) * 3,
       aproveitamento |-> Aproveitamento(pt, Cardinality(R) * 3),
       gols_marcados |-> gm,
       gols_sofridos |-> gs,
       saldo_gols |-> IF IsNull(gm) \/ IsNull(gs) THEN Null ELSE Val(gm[1] - gs[1]) ]

\* the sort key of a DESC column: NULL sorts below every value
ChaveDesc(c) == IF IsNull(c) THEN -1 ELSE c[1]

\* every order ORDER BY aproveitamento DESC, jogos DESC may return the groups in
RECURSIVE OrdensEstatisticas(_)
OrdensEstatisticas(G) ==
  IF G = {} THEN { <<>> }
  ELSE UNION { { <<x>> \o s : s \in OrdensEstatisticas(G \ {x}) } :
               x \in { y \in G : \A z \in G :
                         \/ ChaveDesc(z.aproveitamento) < ChaveDesc(y.aproveitamento)
                         \/ /\ ChaveDesc(z.aproveitamento) = ChaveDesc(y.aproveitamento)
                            /\ z.jogos <= y.jogos } }

\* every order ORDER BY jogos DESC may return the groups in
RECURSIVE OrdensPorJogos(_)
OrdensPorJogos(G) ==
  IF G = {} THEN { <<>> }
  ELSE UNION { { <<x>> \o s : s \in OrdensPorJogos(G \ {x}) } :
               x \in { y \in G : \A z \in G : z.jogos <= y.jogos } }

\* GROUP BY t.id, t.nome, t.dt_inicio, t.dt_fim of /estatisticas
GruposPorTecnico(P, Tc) ==
  LET R == ComResultado(P, LeftJoin(P, Tc)) IN
  { [ tecnico_id |-> IF j = 0 THEN Null ELSE Val(Tc[j].id),
      tecnico |-> IF j = 0 THEN Null ELSE Val(Tc[j].nome),
      dt_inicio |-> IF j = 0 THEN Null ELSE Tc[j].dt_inicio,
      dt_fim |-> IF j = 0 THEN Null ELSE Tc[j].dt_fim ]
    @@ Agrega(P, { par \in R : par[2] = j }) :
    j \in { par[2] : par \in R } }

\* the joined rows of one tecnico: INNER JOIN ... WHERE t.id = ?
DoTecnico(P, Tc, tecnico_id) ==
  { par \in InnerJoin(P, Tc) : Tc[par[2]].id = tecnico_id }

\* GROUP BY p.competicao of /estatisticas/tecnico/{id}
GruposPorCompeticao(P, Tc, tecnico_id) ==
  LET R == ComResultado(P, DoTecnico(P, Tc, tecnico_id)) IN
  { [ competicao |-> c ]
    @@ [ x \in { "jogos", "vitorias", "empates", "derrotas", "pontos_conquistados",
                 "pontos_possiveis", "aproveitamento", "gols_marcados", "gols_sofridos" }
         |-> Agrega(P, { par \in R : P[par[1]].competicao = c })[x] ] :
    c \in { P[par[1]].competicao : par \in R } }

(***************************************************************************)
(* api/api.py: the handlers. Each opens a connection of its own            *)
(* (get_db_connection) and so reads the committed tables.                  *)
(***************************************************************************)
\* a reader that shares the writer's connection sees its uncommitted rows
LidoPartidasNaoCommitado == IF pc = "salva_partidas" THEN tx ELSE partidas

LidoPartidas == partidas

LidoTecnicosNaoCommitado == IF pc = "salva_tecnicos" THEN tx ELSE tecnicos

LidoTecnicos == tecnicos

\* the call of extrair_dados that was saving when the response was read, 0 if none
Durante == IF pc \in {"salva_partidas", "salva_tecnicos"} THEN execucao ELSE 0

Competicoes == { "Serie A", "Copa" }

Anos == { AnoBase, AnoBase + 1 }

\* GET /partidas: the responses the handler may give
RespostasPartidas(page, page_size, ano, competicao) ==
  LET P      == LidoPartidas
      Tc     == LidoTecnicos
      offset == (page - 1) * page_size
  IN
  IF ~IsNull(ano)
  THEN \* strftime(%Y, data): sqlite3.OperationalError, near "%": syntax error
       { [rota |-> "partidas", status |-> 500, durante |-> Durante] }
  ELSE LET R == { par \in LeftJoin(P, Tc) :
                    IsNull(competicao) \/ P[par[1]].competicao = competicao[1] }
           total_registros == Cardinality(R)
           total_paginas   == TotalPaginas(total_registros, page_size)
       IN { [ rota |-> "partidas", status |-> 200, durante |-> Durante,
              total_registros |-> total_registros,
              page |-> page, page_size |-> page_size,
              total_paginas |-> total_paginas,
              has_next |-> page < total_paginas,
              has_previous |-> page > 1,
              filtros |-> [ano |-> ano, competicao |-> competicao],
              partidas |-> Listadas(P, Tc, Pagina(ord, page_size, offset)) ] :
            ord \in OrdensPorData(P, R) }

FiltrosAno == { Null } \cup { Val(a) : a \in Anos }

FiltrosCompeticao == { Null } \cup { Val(c) : c \in Competicoes }

api_get_partidas ==
  /\ resp = SemResposta
  /\ \E page \in 1..MaxPage, page_size \in 1..MaxPageSize,
        ano \in FiltrosAno, competicao \in FiltrosCompeticao :
       resp' \in RespostasPartidas(page, page_size, ano, competicao)
  /\ UNCHANGED << partidas, tecnicos, pc, lote, fila, tx, impresso, hoje, execucao, coleta >>

\* GET /partidas/ano/{ano}
get_partidas_por_ano_com_tecnico ==
  /\ resp = SemResposta
  /\ \E ano \in Anos, page \in 1..MaxPage, page_size \in 1..MaxPageSize :
       LET P      == LidoPartidas
           Tc     == LidoTecnicos
           offset == (page - 1) * page_size
           R      == { par \in LeftJoin(P, Tc) : Ano(P[par[1]].data) = Val(ano) }
           total_registros == Cardinality(R)
           total_paginas   == (total_registros + page_size - 1) \div page_size
       IN
       IF total_registros = 0
       THEN resp' = [ rota |-> "partidas_ano", status |-> 404, durante |-> Durante,
                      detail |-> ano ]
       ELSE \E ord \in OrdensPorData(P, R) :
              resp' = [ rota |-> "partidas_ano", status |-> 200, durante |-> Durante,
                        ano |-> ano, total_registros |-> total_registros,
                        page |-> page, page_size |-> page_size,
                        total_paginas |-> total_paginas,
                        has_next |-> page < total_paginas,
                        has_previous |-> page > 1,
                        partidas |-> Listadas(P, Tc, Pagina(ord, page_size, offset)) ]
  /\ UNCHANGED << partidas, tecnicos, pc, lote, fila, tx, impresso, hoje, execucao, coleta >>

\* GET /estatisticas
get_estatisticas ==
  /\ resp = SemResposta
  /\ \E ord \in OrdensEstatisticas(GruposPorTecnico(LidoPartidas, LidoTecnicos)) :
       resp' = [ rota |-> "estatisticas", status |-> 200, durante |-> Durante,
                 total_tecnicos |-> Len(ord), estatisticas |-> ord ]
  /\ UNCHANGED << partidas, tecnicos, pc, lote, fila, tx, impresso, hoje, execucao, coleta >>

\* the ids a request may name: those of the table and one beyond
IdsTecnico == 1..(Len(tecnicos) + 1)

\* GET /estatisticas/tecnico/{tecnico_id}
get_estatisticas_tecnico ==
  /\ resp = SemResposta
  /\ \E tecnico_id \in IdsTecnico :
       LET P  == LidoPartidas
           Tc == LidoTecnicos
       IN
       IF ~\E j \in 1..Len(Tc) : Tc[j].id = tecnico_id
       THEN resp' = [ rota |-> "estatisticas_tecnico", status |-> 404,
                      durante |-> Durante, detail |-> tecnico_id ]
       ELSE \E ord \in OrdensPorJogos(GruposPorCompeticao(P, Tc, tecnico_id)) :
              resp' = [ rota |-> "estatisticas_tecnico", status |-> 200,
                        durante |-> Durante,
                        tecnico |-> Tc[CHOOSE j \in 1..Len(Tc) : Tc[j].id = tecnico_id],
                        estatisticas_gerais |->
                          Agrega(P, ComResultado(P, DoTecnico(P, Tc, tecnico_id))),
                        estatisticas_por_competicao |-> ord ]
  /\ UNCHANGED << partidas, tecnicos, pc, lote, fila, tx, impresso, hoje, execucao, coleta >>

\* GET /ultima_partida: ORDER BY p.data DESC LIMIT 1
get_ultima_partida ==
  /\ resp = SemResposta
  /\ LET P  == LidoPartidas
         Tc == LidoTecnicos
         R  == LeftJoin(P, Tc)
     IN
     IF R = {}
     THEN resp' = [rota |-> "ultima_partida", status |-> 404, durante |-> Durante]
     ELSE \E ord \in OrdensPorData(P, R) :
            resp' = [ rota |-> "ultima_partida", status |-> 200, durante |-> Durante,
                      partida |-> LinhaListada(P, Tc, ord[1]) ]
  /\ UNCHANGED << partidas, tecnicos, pc, lote, fila, tx, impresso, hoje, execucao, coleta >>

\* every order ORDER BY dt_inicio DESC may return the tenures in
RECURSIVE OrdensPorInicio(_)
OrdensPorInicio(S) ==
  IF S = {} THEN { <<>> }
  ELSE UNION { { <<x>> \o s : s \in OrdensPorInicio(S \ {x}) } :
               x \in { y \in S : \A z \in S :
                         ChaveDesc(z.dt_inicio) <= ChaveDesc(y.dt_inicio) } }

\* GET /tecnicos: SELECT * FROM tecnicos ORDER BY dt_inicio DESC
api_get_tecnicos ==
  /\ resp = SemResposta
  /\ \E ord \in OrdensPorInicio({ LidoTecnicos[j] : j \in 1..Len(LidoTecnicos) }) :
       resp' = [ rota |-> "tecnicos", status |-> 200, durante |-> Durante,
                 total |-> Len(ord), tecnicos |-> ord ]
  /\ UNCHANGED << partidas, tecnicos, pc, lote, fila, tx, impresso, hoje, execucao, coleta >>

\* GET /partidas/tecnico/{tecnico_id}: SELECT p.*, t.nome AS tecnico
get_partidas_por_tecnico ==
  /\ resp = SemResposta
  /\ \E tecnico_id \in IdsTecnico, page \in 1..MaxPage, page_size \in 1..MaxPageSize :
       LET P      == LidoPartidas
           Tc     == LidoTecnicos
           offset == (page - 1) * page_size
       IN
       IF ~\E j \in 1..Len(Tc) : Tc[j].id = tecnico_id
       THEN resp' = [ rota |-> "partidas_tecnico", status |-> 404, durante |-> Durante,
                      detail |-> tecnico_id ]
       ELSE LET R == DoTecnico(P, Tc, tecnico_id)
                total_registros == Cardinality(R)
                total_paginas   == TotalPaginas(total_registros, page_size)
            IN \E ord \in OrdensPorData(P, R) :
                 resp' = [ rota |-> "partidas_tecnico", status |-> 200,
                           durante |-> Durante,
                           tecnico |-> Tc[CHOOSE j \in 1..Len(Tc) : Tc[j].id = tecnico_id],
                           total_registros |-> total_registros,
                           page |-> page, page_size |-> page_size,
                           total_paginas |-> total_paginas,
                           has_next |-> page < total_paginas,
                           has_prev |-> page > 1,
                           partidas |->
                             LET pag == Pagina(ord, page_size, offset) IN
                             [ k \in 1..Len(pag) |->
                                 P[pag[k][1]] @@ [tecnico |-> Tc[pag[k][2]].nome] ] ]
  /\ UNCHANGED << partidas, tecnicos, pc, lote, fila, tx, impresso, hoje, execucao, coleta >>

\* the response has left the server
entrega ==
  /\ resp # SemResposta
  /\ resp' = SemResposta
  /\ UNCHANGED << partidas, tecnicos, pc, lote, fila, tx, impresso, hoje, execucao, coleta >>

(***************************************************************************)
(* SpecApi: the API serving a database that one run of the script          *)
(* (init_db, get_partidas, get_tecnicos) has filled; no writer runs.       *)
(***************************************************************************)
LinhasPartidasApi == { pCasa, pSemPlacar, pEmpate }

LinhasTecnicosApi == { tArtur, tBruno, tCarlos }

InitApi ==
  /\ \E l \in SeqsAte(LinhasPartidasApi, MaxLote) : partidas = EfeitoPartidas(<<>>, l, 1)
  /\ \E l \in SeqsAte(LinhasTecnicosApi, MaxLote) : tecnicos = EfeitoTecnicos(<<>>, l, 1)
  /\ pc = "fim"
  /\ lote = [tipo |-> "tecnicos", linhas |-> <<>>]
  /\ fila = <<>>
  /\ tx = <<>>
  /\ impresso = NadaImpresso
  /\ hoje = 1
  /\ execucao = 1
  /\ resp = SemResposta
  /\ coleta = SemColeta

NextApi ==
  \/ api_get_partidas
  \/ get_partidas_por_ano_com_tecnico
  \/ get_partidas_por_tecnico
  \/ get_estatisticas
  \/ get_estatisticas_tecnico
  \/ get_ultima_partida
  \/ api_get_tecnicos
  \/ entrega

SpecApi == InitApi /\ [][NextApi]_vars

(***************************************************************************)
(* SpecPaginas: a client walks the pages 1, 2, ... of GET /partidas with   *)
(* one page_size and one competicao filter, on the same database.          *)
(***************************************************************************)
cliente_primeira_pagina ==
  /\ coleta.proxima > coleta.paginas
  /\ \E page_size \in 1..MaxPageSize, competicao \in FiltrosCompeticao :
       \E r \in RespostasPartidas(1, page_size, Null, competicao) :
         /\ resp' = r
         /\ coleta' = [ page_size |-> page_size, competicao |-> competicao,
                        proxima |-> 2, paginas |-> r.total_paginas,
                        linhas |-> r.partidas ]
  /\ UNCHANGED << partidas, tecnicos, pc, lote, fila, tx, impresso, hoje, execucao >>

cliente_proxima_pagina ==
  /\ coleta.proxima <= coleta.paginas
  /\ \E r \in RespostasPartidas(coleta.proxima, coleta.page_size, Null, coleta.competicao) :
       /\ resp' = r
       /\ coleta' = [ coleta EXCEPT !.proxima = coleta.proxima + 1,
                                    !.linhas = coleta.linhas \o r.partidas ]
  /\ UNCHANGED << partidas, tecnicos, pc, lote, fila, tx, impresso, hoje, execucao >>

NextPaginas == cliente_primeira_pagina \/ cliente_proxima_pagina

SpecPaginas == InitApi /\ [][NextPaginas]_vars

(***************************************************************************)
(* Claims on the ingestion (SpecIngest).                                   *)
(***************************************************************************)
\* a table without the column dt_coleta
Obs(tab) == [ i \in 1..Len(tab) |-> [ tab[i] EXCEPT !.dt_coleta = 0 ] ]

\* C1: the second and every later call on the same rows leaves both tables as
\* the first call left them, dt_coleta aside: no row added, removed or changed
C1_Idempotencia ==
  [][ execucao >= 2 =>
        /\ Obs(partidas') = Obs(partidas)
        /\ Obs(tecnicos') = Obs(tecnicos) ]_vars

\* C1: a second call on the same rows has committed its upserts on a table
\* that the first call had filled
C1_Witness ==
  /\ execucao = 2
  /\ pc = "fim"
  /\ ~IsNull(impresso.atualizadas)
  /\ Len(partidas) + Len(tecnicos) >= 2

\* a row that get_partidas stores when it is the only row of its batch
LinhaValida(raw) ==
  /\ TemColunas(raw)
  /\ ~LinhaLevanta(raw)
  /\ Limpa(LinhaExtraida(raw, 0))
  /\ ~BindLevanta(Converte(LinhaExtraida(raw, 0)))

Armazenada(raw) ==
  \E i \in 1..Len(partidas) :
    ConflitoPartida(partidas[i], Converte(LinhaExtraida(raw, 0)))

\* C8: a call of get_partidas whose batch holds a valid row never ends by an
\* exception raised by another row, and once it has ended every valid row of
\* the batch is stored
C8_LinhasIndependentes ==
  ( /\ lote.tipo = "partidas"
    /\ pc \in {"fim", "levantou"}
    /\ \E i \in 1..Len(lote.linhas) : LinhaValida(lote.linhas[i]) ) =>
    /\ pc = "fim"
    /\ \A i \in 1..Len(lote.linhas) :
         LinhaValida(lote.linhas[i]) => Armazenada(lote.linhas[i])

\* the rows of the batch that the commit's count covers, read off the cells
Contadas(linhas) ==
  { i \in 1..Len(linhas) :
      /\ Len(linhas[i].cols) >= 9
      /\ linhas[i].competicao # "Os ultimos  jogos"
      /\ ~(Len(linhas[i].cols) >= 10 /\ linhas[i].cols[10] = <<"-", ":", "-">>) }

C10_SubstituiTudo ==
  [][ (pc = "salva_partidas" /\ fila # <<>> /\ ~BindLevanta(Head(fila))) =>
        \A i \in 1..Len(tx) :
          ConflitoPartida(tx[i], Head(fila)) =>
            /\ tx'[i] = [ Head(fila) EXCEPT !.dt_coleta = hoje ] @@ [ id |-> i ]
            /\ tx'[i].competicao = tx[i].competicao
            /\ tx'[i].rodada = tx[i].rodada
            /\ tx'[i].data = tx[i].data ]_vars


(***************************************************************************)
(* Claims on the listings and the statistics (SpecApi, SpecPaginas).       *)
(***************************************************************************)
\* the tenures of the table active on the date of match p, both bounds
\* inclusive, an open tenure without end
AtivosEm(p) ==
  { j \in 1..Len(tecnicos) :
      /\ ~IsNull(p.data) /\ ~IsNull(tecnicos[j].dt_inicio)
      /\ tecnicos[j].dt_inicio[1] <= p.data[1]
      /\ (IsNull(tecnicos[j].dt_fim) \/ tecnicos[j].dt_fim[1] >= p.data[1]) }

\* among several active tenures the latest start, then the lowest id
Preferido(p) ==
  CHOOSE j \in AtivosEm(p) :
    \A k \in AtivosEm(p) :
      \/ tecnicos[k].dt_inicio[1] < tecnicos[j].dt_inicio[1]
      \/ /\ tecnicos[k].dt_inicio[1] = tecnicos[j].dt_inicio[1]
         /\ tecnicos[j].id <= tecnicos[k].id

Listagem200 == resp.rota \in {"partidas", "partidas_ano"} /\ resp.status = 200

\* C2: every stored match is attributed to at most one tenure, the active one
\* with the latest start and then the lowest id, null when none is active; so
\* a listing holds each match at most once and the unfiltered total_registros
\* is the number of stored matches.
C2_UmaAtribuicao ==
  Listagem200 =>
    /\ \A k1, k2 \in 1..Len(resp.partidas) :
         resp.partidas[k1].id = resp.partidas[k2].id => k1 = k2
    /\ \A k \in 1..Len(resp.partidas) :
         LET l == resp.partidas[k]
             p == partidas[l.id]
         IN l.tecnico_id = IF AtivosEm(p) = {} THEN Null
                           ELSE Val(tecnicos[Preferido(p)].id)
    /\ (resp.rota = "partidas" /\ IsNull(resp.filtros.competicao))
         => resp.total_registros = Len(partidas)

\* C3: a listed match names a tenure only if start <= date and (end is null or
\* end >= date), bounds inclusive, and names none only if no stored tenure is
\* so; the unfiltered total and the games of a tenure's statistics count
\* exactly the (match, tenure) pairs so related.
C3_IntervaloInclusivo ==
  /\ Listagem200 =>
       \A k \in 1..Len(resp.partidas) :
         LET l == resp.partidas[k]
             p == partidas[l.id]
         IN IF IsNull(l.tecnico_id) THEN AtivosEm(p) = {}
            ELSE l.tecnico_id[1] \in { tecnicos[j].id : j \in AtivosEm(p) }
  /\ (resp.rota = "partidas" /\ resp.status = 200 /\ IsNull(resp.filtros.competicao)) =>
       resp.total_registros =
         Cardinality({ par \in (1..Len(partidas)) \X (1..Len(tecnicos)) :
                         par[2] \in AtivosEm(partidas[par[1]]) })
         + Cardinality({ i \in 1..Len(partidas) : AtivosEm(partidas[i]) = {} })
  /\ (resp.rota = "estatisticas_tecnico" /\ resp.status = 200) =>
       resp.estatisticas_gerais.jogos =
         Cardinality({ i \in 1..Len(partidas) :
                         /\ ~IsNull(partidas[i].resultado)
                         /\ \E j \in AtivosEm(partidas[i]) :
                              tecnicos[j].id = resp.tecnico.id })

\* a listing names the tenure for a match on its end date, and no tenure for a
\* match of the day after
C3_Witness ==
  /\ Listagem200
  /\ \E k1, k2 \in 1..Len(resp.partidas), j \in 1..Len(tecnicos) :
       /\ ~IsNull(tecnicos[j].dt_fim)
       /\ resp.partidas[k1].data = tecnicos[j].dt_fim
       /\ resp.partidas[k1].tecnico_id = Val(tecnicos[j].id)
       /\ resp.partidas[k2].data = Val(tecnicos[j].dt_fim[1] + 1)
       /\ IsNull(resp.partidas[k2].tecnico_id)

\* the stored matches a /partidas request with this filter selects
Selecionadas(competicao) ==
  { i \in 1..Len(partidas) :
      IsNull(competicao) \/ partidas[i].competicao = competicao[1] }

\* the stored matches with an outcome that tenure id tid (0: no tenure) covers
ComResultadoDe(tid) ==
  { i \in 1..Len(partidas) :
      /\ ~IsNull(partidas[i].resultado)
      /\ IF tid = 0 THEN AtivosEm(partidas[i]) = {}
         ELSE \E j \in AtivosEm(partidas[i]) : tecnicos[j].id = tid }

\* C4: a stored match without outcome is counted and returned by /partidas,
\* and no statistics group (per tenure, a tenure's total, per competition)
\* counts it in jogos.
C4_SemResultado ==
  /\ (resp.rota = "partidas" /\ resp.status = 200) =>
       /\ resp.total_registros >= Cardinality(Selecionadas(resp.filtros.competicao))
       /\ (resp.page = 1 /\ resp.total_paginas <= 1) =>
            \A i \in Selecionadas(resp.filtros.competicao) :
              \E k \in 1..Len(resp.partidas) :
                /\ resp.partidas[k].id = partidas[i].id
                /\ resp.partidas[k].resultado = partidas[i].resultado
  /\ (resp.rota = "estatisticas" /\ resp.status = 200) =>
       \A k \in 1..Len(resp.estatisticas) :
         LET g == resp.estatisticas[k] IN
         g.jogos = Cardinality(ComResultadoDe(IF IsNull(g.tecnico_id) THEN 0
                                              ELSE g.tecnico_id[1]))
  /\ (resp.rota = "estatisticas_tecnico" /\ resp.status = 200) =>
       /\ resp.estatisticas_gerais.jogos = Cardinality(ComResultadoDe(resp.tecnico.id))
       /\ \A k \in 1..Len(resp.estatisticas_por_competicao) :
            LET g == resp.estatisticas_por_competicao[k] IN
            g.jogos = Cardinality({ i \in ComResultadoDe(resp.tecnico.id) :
                                      partidas[i].competicao = g.competicao })

\* a tenure covers a match without outcome and one with, and its group counts 1
C4_Witness ==
  /\ resp.rota = "estatisticas" /\ resp.status = 200
  /\ \E k \in 1..Len(resp.estatisticas), i \in 1..Len(partidas) :
       LET g == resp.estatisticas[k] IN
       /\ ~IsNull(g.tecnico_id)
       /\ IsNull(partidas[i].resultado)
       /\ \E j \in AtivosEm(partidas[i]) : tecnicos[j].id = g.tecnico_id[1]
       /\ g.jogos = 1

\* the listing holds a match without outcome
C4_WitnessListada ==
  /\ resp.rota = "partidas" /\ resp.status = 200
  /\ \E k \in 1..Len(resp.partidas) : IsNull(resp.partidas[k].resultado)

\* the walk has fetched every page 1..N
ColetaCompleta == coleta.paginas > 0 /\ coleta.proxima > coleta.paginas

\* C6: the pages 1..N of /partidas concatenated hold every selected match
\* once, by date descending; stated here for the stores in which no two
\* matches share a date.
C6_PaginasConcatenadas ==
  ( /\ ColetaCompleta
    /\ \A i1, i2 \in 1..Len(partidas) :
         partidas[i1].data = partidas[i2].data => i1 = i2 ) =>
    /\ \A k1, k2 \in 1..Len(coleta.linhas) :
         coleta.linhas[k1].id = coleta.linhas[k2].id => k1 = k2
    /\ { coleta.linhas[k].id : k \in 1..Len(coleta.linhas) }
         = { partidas[i].id : i \in Selecionadas(coleta.competicao) }
    /\ \A k1, k2 \in 1..Len(coleta.linhas) :
         k1 < k2 => coleta.linhas[k1].data[1] >= coleta.linhas[k2].data[1]


(***************************************************************************)
(* SpecEstat: the statistics handlers over a season of up to MaxJogos      *)
(* home games with an outcome, ingested by one run of the script.          *)
(***************************************************************************)
MaxJogos == 10

\* the decimal text of n
RECURSIVE Algarismos(_)
Algarismos(n) ==
  LET d == <<"0", "1", "2", "3", "4", "5", "6", "7", "8", "9">>[(n % 10) + 1] IN
  IF n < 10 THEN <<d>> ELSE Algarismos(n \div 10) \o <<d>>

Rodadas == << "1", "2", "3", "4", "5", "6", "7", "8", "9", "10", "11", "12" >>

\* the n-th game of the season: home, on day 5 + n, with the score placar
pJogo(n, placar) ==
  [ competicao |-> IF n % 2 = 0 THEN "Copa" ELSE "Serie A",
    cols |-> << Rodadas[n], <<"s", "a", "b", " ">> \o Algarismos(5 + n), "16:00", "C",
                <<"(", "3", ".", ")">>, "", <<"P", "a", "l", " ", "(", "2", ".", ")">>,
                "4-3-3", <<"9", "0", "0">>, placar >> ]

\* v wins, then e draws, then d defeats
Temporada(v, e, d) ==
  [ n \in 1..(v + e + d) |->
      pJogo(n, IF n <= v THEN <<"2", ":", "0">>
               ELSE IF n <= v + e THEN <<"1", ":", "1">>
               ELSE <<"0", ":", "1">>) ]

InitEstat ==
  /\ \E v, e, d \in 0..MaxJogos :
       /\ v + e + d <= MaxJogos
       /\ partidas = EfeitoPartidas(<<>>, Temporada(v, e, d), 1)
  /\ \E l \in { <<>>, <<tBruno>>, <<tBruno, tCarlos>>, <<tArtur, tCarlos>> } :
       tecnicos = EfeitoTecnicos(<<>>, l, 1)
  /\ pc = "fim"
  /\ lote = [tipo |-> "tecnicos", linhas |-> <<>>]
  /\ fila = <<>>
  /\ tx = <<>>
  /\ impresso = NadaImpresso
  /\ hoje = 1
  /\ execucao = 1
  /\ resp = SemResposta
  /\ coleta = SemColeta

NextEstat ==
  \/ get_estatisticas
  \/ get_estatisticas_tecnico
  \/ entrega

SpecEstat == InitEstat /\ [][NextEstat]_vars

\* the groups of a statistics response that hold at least one game
GruposDaResposta ==
  IF resp.rota = "estatisticas" /\ resp.status = 200
  THEN { resp.estatisticas[k] : k \in 1..Len(resp.estatisticas) }
  ELSE IF resp.rota = "estatisticas_tecnico" /\ resp.status = 200
  THEN { g \in { resp.estatisticas_gerais } : g.jogos > 0 }
       \cup { resp.estatisticas_por_competicao[k] :
                k \in 1..Len(resp.estatisticas_por_competicao) }
  ELSE {}

LinhasPartidasConc == { pCasa, pFora, pSemData }

LinhasTecnicosConc == { tArtur, tArturAberto }

InitConc ==
  /\ \/ \E l0 \in SeqsAte({ pCasa }, 1), l \in SeqsAte(LinhasPartidasConc, MaxLote) :
          /\ partidas = EfeitoPartidas(<<>>, l0, 0)
          /\ tecnicos = <<>>
          /\ lote = [tipo |-> "partidas", linhas |-> l]
     \/ \E l0 \in SeqsAte({ tArtur }, 1), l \in SeqsAte(LinhasTecnicosConc, MaxLote) :
          /\ partidas = <<>>
          /\ tecnicos = EfeitoTecnicos(<<>>, l0, 0)
          /\ lote = [tipo |-> "tecnicos", linhas |-> l]
  /\ pc = Chamada(lote.tipo)
  /\ fila = <<>>
  /\ tx = <<>>
  /\ impresso = NadaImpresso
  /\ hoje = 1
  /\ execucao = 1
  /\ resp = SemResposta
  /\ coleta = SemColeta

NextConc ==
  \/ get_partidas
  \/ executa_partida
  \/ commit_partidas
  \/ get_tecnicos
  \/ executa_tecnico
  \/ commit_tecnicos
  \/ api_get_partidas
  \/ api_get_tecnicos
  \/ entrega

SpecConc == InitConc /\ [][NextConc]_vars

\* the match columns of a listed row
SoPartida(l) == [ l EXCEPT !.tecnico_id = Null, !.tecnico = Null ]

\* row l of a listing is the row of its id in table P, whole
VersaoDePartida(l, P) ==
  \E i \in 1..Len(P) : P[i].id = l.id /\ SoPartida(l) = LinhaListada(P, <<>>, <<i, 0>>)

\* the response in flight was read while the call wrote
LidaDurante == resp # SemResposta /\ resp.status = 200 /\ resp.durante = execucao

\* C7: when the writing call ends, by commit or by an exception, every match
\* row and every tenure row that a request read while it wrote is, whole, the
\* row as stored before the call or the row as stored after it.
C7_SemEscritaRasgada ==
  [][ ( /\ pc \in {"salva_partidas", "salva_tecnicos"}
        /\ pc' \in {"fim", "levantou"}
        /\ LidaDurante ) =>
      /\ resp.rota = "partidas" =>
           \A k \in 1..Len(resp.partidas) :
             \/ VersaoDePartida(resp.partidas[k], partidas)
             \/ VersaoDePartida(resp.partidas[k], partidas')
      /\ resp.rota = "tecnicos" =>
           \A k \in 1..Len(resp.tecnicos) :
             \/ \E j \in 1..Len(tecnicos) : tecnicos[j] = resp.tecnicos[k]
             \/ \E j \in 1..Len(tecnicos') : tecnicos'[j] = resp.tecnicos[k] ]_vars

\* a request has returned a row while the call held an uncommitted change of
\* that row
C7_Witness ==
  /\ LidaDurante
  /\ \/ /\ pc = "salva_partidas" /\ resp.rota = "partidas"
        /\ \E k \in 1..Len(resp.partidas) :
             LET i == resp.partidas[k].id IN
             [ tx[i] EXCEPT !.dt_coleta = 0 ] # [ partidas[i] EXCEPT !.dt_coleta = 0 ]
     \/ /\ pc = "salva_tecnicos" /\ resp.rota = "tecnicos"
        /\ \E k \in 1..Len(resp.tecnicos) :
             LET j == resp.tecnicos[k].id IN
             [ tx[j] EXCEPT !.dt_coleta = 0 ] # [ tecnicos[j] EXCEPT !.dt_coleta = 0 ]


(***************************************************************************)
(* Claims on the parsing of one row (SpecIngest).                          *)
(***************************************************************************)
\* the text is a numeral
EhNumeral(txt) == txt # <<>> /\ \A i \in 1..Len(txt) : txt[i] \in Digitos

\* the score cell reads "X:Y", X and Y numerals
PlacarBemFormado(c) ==
  /\ ~IsNull(c)
  /\ Cardinality({ i \in 1..Len(c[1]) : c[1][i] = ":" }) = 1
  /\ EhNumeral(SplitPrimeiro(c[1], ":"))
  /\ EhNumeral(SplitUltimo(c[1], ":"))

\* goals for, goals against and outcome that a row should give: X:Y read by
\* venue, nulls when the score is missing or not "X:Y"
PlacarEsperado(raw) ==
  LET c == Coluna(raw.cols, 10) IN
  IF ~PlacarBemFormado(c)
  THEN [gols |-> Null, gols_adversario |-> Null, resultado |-> Null]
  ELSE LET x  == Numeral(SplitPrimeiro(c[1], ":"))
           y  == Numeral(SplitUltimo(c[1], ":"))
           gf == IF raw.cols[4] = "C" THEN x ELSE y
           ga == IF raw.cols[4] = "C" THEN y ELSE x
       IN [gols |-> Val(gf), gols_adversario |-> Val(ga),
           resultado |-> Val(IF gf > ga THEN "V" ELSE IF gf < ga THEN "D" ELSE "E")]

\* the score cell is missing or holds a text without ':'
PlacarSemDoisPontos(c) == IsNull(c) \/ ~Contem(c[1], ":")

\* the row has 9 cells or more and the cleaning keeps it
Mantida(raw) ==
  /\ TemColunas(raw)
  /\ raw.competicao # MetaCompeticao
  /\ Coluna(raw.cols, 10) # Val(PlacarVazio)

\* C11: parsing a batch of rows the cleaning keeps, each with a score "X:Y",
\* a score without ':' or no score, gives each row goals for and against read
\* from "X:Y" by venue (home X, Y; away Y, X) and the outcome V, D or E by
\* comparing them; a score that is missing or has no ':' gives null goals and
\* a null outcome, home or away.
C11_PlacarPorMando ==
  [][ ( /\ pc = "get_partidas"
        /\ lote.linhas # <<>>
        /\ \A i \in 1..Len(lote.linhas) :
             /\ Mantida(lote.linhas[i])
             /\ \/ PlacarBemFormado(Coluna(lote.linhas[i].cols, 10))
                \/ PlacarSemDoisPontos(Coluna(lote.linhas[i].cols, 10)) ) =>
      ( /\ pc' = "salva_partidas"
        /\ Len(fila') = Len(lote.linhas)
        /\ \A k \in 1..Len(lote.linhas) :
             LET e == PlacarEsperado(lote.linhas[k]) IN
             /\ fila'[k].gols = e.gols
             /\ fila'[k].gols_adversario = e.gols_adversario
             /\ fila'[k].resultado = e.resultado ) ]_vars


(***************************************************************************)
(* Claims on what reaches the table partidas (SpecIngest).                 *)
(***************************************************************************)
\* the date cell of the row, after the weekday token, is a date
DataLegivel(raw) ==
  LET data == raw.cols[2] IN
  EhNumeral(IF Contem(data, " ") THEN SplitUltimo(data, " ") ELSE data)

\* record r carries the natural key of the scraped row raw
ChaveDe(r, raw) ==
  LET data == raw.cols[2] IN
  /\ r.competicao = raw.competicao
  /\ r.rodada = raw.cols[1]
  /\ r.data = Val(Numeral(IF Contem(data, " ") THEN SplitUltimo(data, " ") ELSE data))

\* C12: every stored match has a date, and its natural key is that of a
\* scraped row with at least 9 cells, a date that parses and a competition
\* that is not the "recent games" box: no other row is ever stored.
C12_NuncaArmazenada ==
  \A i \in 1..Len(partidas) :
    /\ ~IsNull(partidas[i].data)
    /\ partidas[i].competicao # MetaCompeticao
    /\ \E raw \in LinhasPartidas :
         /\ Len(raw.cols) >= 9
         /\ DataLegivel(raw)
         /\ raw.competicao # MetaCompeticao
         /\ ChaveDe(partidas[i], raw)

\* a call has committed a batch that held a row of fewer than 9 cells or a row
\* of the "recent games" box
C12_Witness ==
  /\ lote.tipo = "partidas" /\ pc = "fim" /\ ~IsNull(impresso.atualizadas)
  /\ partidas # <<>>
  /\ \E i \in 1..Len(lote.linhas) :
       Len(lote.linhas[i].cols) < 9 \/ lote.linhas[i].competicao = MetaCompeticao

\* a call has ended on a batch that held a row whose date does not parse
C12_WitnessData ==
  /\ lote.tipo = "partidas" /\ pc = "levantou" /\ ~IsNull(impresso.extraidas)
  /\ \E i \in 1..Len(lote.linhas) :
       Len(lote.linhas[i].cols) >= 9 /\ ~DataLegivel(lote.linhas[i])


\* the table holds a record with the key of raw, its goals and outcome null
ArmazenadaSemPlacar(raw) ==
  \E i \in 1..Len(partidas) :
    /\ ChaveDe(partidas[i], raw)
    /\ IsNull(partidas[i].gols)
    /\ IsNull(partidas[i].gols_adversario)
    /\ IsNull(partidas[i].resultado)

\* the call has committed
Commitou == lote.tipo = "partidas" /\ pc = "fim" /\ ~IsNull(impresso.atualizadas)

\* the date text of the row, after the weekday token
TextoData(raw) ==
  IF Contem(raw.cols[2], " ") THEN SplitUltimo(raw.cols[2], " ") ELSE raw.cols[2]

\* no later row of the batch has the key cells of row i
UltimaDaChave(i) ==
  \A k \in (i + 1)..Len(lote.linhas) :
    ~ /\ Len(lote.linhas[k].cols) >= 9
      /\ lote.linhas[k].competicao = lote.linhas[i].competicao
      /\ lote.linhas[k].cols[1] = lote.linhas[i].cols[1]
      /\ TextoData(lote.linhas[k]) = TextoData(lote.linhas[i])

\* the stored matches without outcome are all in the result set of an
\* unfiltered /partidas and in no row set that the statistics aggregate
SemResultadoListadasNaoAgregadas ==
  \A i \in 1..Len(partidas) :
    IsNull(partidas[i].resultado) =>
      /\ \A r \in RespostasPartidas(1, Len(partidas) * (Len(tecnicos) + 1), Null, Null) :
           \E k \in 1..Len(r.partidas) : r.partidas[k].id = partidas[i].id
      /\ \A par \in ComResultado(partidas, LeftJoin(partidas, tecnicos)) : par[1] # i

\* the score cell holds a text with ':' one side of which is no numeral
PlacarComLadoIlegivel(c) ==
  /\ ~IsNull(c) /\ Contem(c[1], ":")
  /\ ~(EhNumeral(SplitPrimeiro(c[1], ":")) /\ EhNumeral(SplitUltimo(c[1], ":")))

\* the table holds a record with the key of raw, its outcome null and one of
\* its goals null
ArmazenadaSemResultado(raw) ==
  \E i \in 1..Len(partidas) :
    /\ ChaveDe(partidas[i], raw)
    /\ IsNull(partidas[i].gols) \/ IsNull(partidas[i].gols_adversario)
    /\ IsNull(partidas[i].resultado)

C14_GrupoVazio ==
  /\ resp.rota = "estatisticas_tecnico" =>
       /\ resp.status \in {200, 404}
       /\ resp.status = 404 => \A j \in 1..Len(tecnicos) : tecnicos[j].id # resp.detail
       /\ (resp.status = 200 /\ resp.estatisticas_gerais.jogos = 0) =>
            /\ IsNull(resp.estatisticas_gerais.aproveitamento)
            /\ resp.estatisticas_por_competicao = <<>>
  /\ resp.rota = "estatisticas" =>
       /\ resp.status = 200
       /\ \A k \in 1..Len(resp.estatisticas) :
            /\ resp.estatisticas[k].jogos > 0
            /\ ~IsNull(resp.estatisticas[k].aproveitamento)

\* the statistics of a stored tenure that covers no match with an outcome
C14_Witness ==
  /\ resp.rota = "estatisticas_tecnico" /\ resp.status = 200
  /\ partidas # <<>>
  /\ resp.estatisticas_gerais.jogos = 0
  /\ IsNull(resp.estatisticas_gerais.aproveitamento)


\* the groups of seq are in order of aproveitamento descending, then jogos
\* descending
PorAproveitamentoEJogos(seq) ==
  \A k1, k2 \in 1..Len(seq) :
    k1 < k2 =>
      \/ seq[k1].aproveitamento[1] > seq[k2].aproveitamento[1]
      \/ /\ seq[k1].aproveitamento[1] = seq[k2].aproveitamento[1]
         /\ seq[k1].jogos >= seq[k2].jogos

\* no two groups of seq have the same number of games
JogosDistintos(seq) ==
  \A k1, k2 \in 1..Len(seq) : seq[k1].jogos = seq[k2].jogos => k1 = k2

\* C15: the list of /estatisticas and the per-competition list of
\* /estatisticas/tecnico/{id} are ordered by aproveitamento descending, equal
\* percentages by jogos descending; stated here for the per-competition
\* lists in which no two groups have the same number of games.
C15_OrdemDosGrupos ==
  /\ (resp.rota = "estatisticas" /\ resp.status = 200) =>
       PorAproveitamentoEJogos(resp.estatisticas)
  /\ ( /\ resp.rota = "estatisticas_tecnico" /\ resp.status = 200
       /\ JogosDistintos(resp.estatisticas_por_competicao) ) =>
       PorAproveitamentoEJogos(resp.estatisticas_por_competicao)

\* the part of C15 on /estatisticas alone
C15_OrdemPorTecnico ==
  (resp.rota = "estatisticas" /\ resp.status = 200) =>
    PorAproveitamentoEJogos(resp.estatisticas)


\* C16: only a lookup by a tenure id that is not stored answers 404; a
\* listing whose filter (a year, a competition, a stored tenure) selects no
\* match answers 200 with an empty list and a total of 0.
C16_NaoEncontrado ==
  resp.rota \in {"partidas", "partidas_ano", "partidas_tecnico", "estatisticas_tecnico"} =>
    /\ resp.status = 404 =>
         /\ resp.rota \in {"partidas_tecnico", "estatisticas_tecnico"}
         /\ \A j \in 1..Len(tecnicos) : tecnicos[j].id # resp.detail
    /\ (resp.rota = "partidas_tecnico" /\ resp.status = 200 /\ resp.total_registros = 0) =>
         resp.partidas = <<>>

\* the part of C16 on the lookups by tenure id alone
C16_SoPorTecnico ==
  resp.rota \in {"partidas_tecnico", "estatisticas_tecnico"} =>
    /\ resp.status \in {200, 404}
    /\ resp.status = 404 => \A j \in 1..Len(tecnicos) : tecnicos[j].id # resp.detail
    /\ resp.status = 200 => \E j \in 1..Len(tecnicos) : tecnicos[j].id = resp.tecnico.id
    /\ (resp.rota = "partidas_tecnico" /\ resp.status = 200 /\ resp.total_registros = 0) =>
         resp.partidas = <<>>


\* the stored matches of the year and the competition that the filters name
Filtradas(ano, competicao) ==
  { i \in 1..Len(partidas) :
      /\ IsNull(ano) \/ Ano(partidas[i].data) = ano
      /\ IsNull(competicao) \/ partidas[i].competicao = competicao[1] }

\* C17: /partidas with a year filter, a competition filter, both or none
\* answers 200 with matches of that year and that competition only, and
\* its total_registros is the number of such stored matches (compared here in
\* the stores where no match falls in two tenures).
C17_Filtros ==
  resp.rota = "partidas" =>
    /\ resp.status = 200
    /\ \A k \in 1..Len(resp.partidas) :
         \E i \in Filtradas(resp.filtros.ano, resp.filtros.competicao) :
           partidas[i].id = resp.partidas[k].id
    /\ (\A i \in 1..Len(partidas) : Cardinality(AtivosEm(partidas[i])) <= 1) =>
         resp.total_registros =
           Cardinality(Filtradas(resp.filtros.ano, resp.filtros.competicao))

\* the part of C17 on the requests without a year filter
C17_SemAno ==
  (resp.rota = "partidas" /\ resp.status = 200) =>
    /\ IsNull(resp.filtros.ano)
    /\ \A k \in 1..Len(resp.partidas) :
         \E i \in Filtradas(Null, resp.filtros.competicao) :
           partidas[i].id = resp.partidas[k].id
    /\ (\A i \in 1..Len(partidas) : Cardinality(AtivosEm(partidas[i])) <= 1) =>
         resp.total_registros = Cardinality(Filtradas(Null, resp.filtros.competicao))


\* the response of /ultima_partida is 404 exactly on an empty table, and
\* else one stored match of the latest date
UltimaEhAMaisRecente ==
  /\ resp.status \in {200, 404}
  /\ resp.status = 404 <=> partidas = <<>>
  /\ resp.status = 200 =>
       /\ \E i \in 1..Len(partidas) :
            /\ partidas[i].id = resp.partida.id
            /\ partidas[i].data = resp.partida.data
       /\ \A i \in 1..Len(partidas) : partidas[i].data[1] <= resp.partida.data[1]

\* C18: /ultima_partida answers 404 exactly when no match is stored, and else
\* one match of the latest stored date with the tenure it is attributed to:
\* none when no tenure is active on its date, else the active tenure with the
\* latest start and then the lowest id.
C18_UltimaPartida ==
  resp.rota = "ultima_partida" =>
    /\ UltimaEhAMaisRecente
    /\ resp.status = 200 =>
         LET p == partidas[resp.partida.id] IN
         resp.partida.tecnico_id = IF AtivosEm(p) = {} THEN Null
                                   ELSE Val(tecnicos[Preferido(p)].id)

\* the part of C18 that leaves open which of several active tenures is named
C18_UmaDasAtivas ==
  resp.rota = "ultima_partida" =>
    /\ UltimaEhAMaisRecente
    /\ resp.status = 200 =>
         LET p == partidas[resp.partida.id] IN
         IF IsNull(resp.partida.tecnico_id) THEN AtivosEm(p) = {}
         ELSE resp.partida.tecnico_id[1] \in { tecnicos[j].id : j \in AtivosEm(p) }


(***************************************************************************)
(* SpecParse: get_partidas on a batch of one home row whose opponent cell  *)
(* is drawn from the shapes the site shows.                                *)
(***************************************************************************)
MaxRank == 20

Nomes == { <<"P", "a", "l", "m", "e", "i", "r", "a", "s">>, <<"S", "a", "o", " ", "P">> }

\* "Name (Rank.)"
NomeERank(nome, rank) == nome \o <<" ", "(">> \o Algarismos(rank) \o <<".", ")">>

\* the opponent cells: name and rank, name and rank without the blank, a name
\* alone, a rank that is no number, an empty cell
Adversarios ==
  { NomeERank(nome, rank) : nome \in Nomes, rank \in 1..MaxRank }
    \cup { nome \o <<"(">> \o Algarismos(rank) \o <<".", ")">> :
             nome \in Nomes, rank \in {1, MaxRank} }
    \cup Nomes
    \cup { nome \o <<" ", "(", "x", ".", ")">> : nome \in Nomes }
    \cup { <<>> }

pAdversario(adv) ==
  [ competicao |-> "Serie A",
    cols |-> << "1", <<"s", "a", "b", " ", "5">>, "16:00", "C", <<"(", "3", ".", ")">>,
                "", adv, "4-3-3", <<"9", "0", "0">>, <<"3", ":", "1">> >> ]

InitParse ==
  /\ partidas = <<>>
  /\ tecnicos = <<>>
  /\ \E adv \in Adversarios : lote = [tipo |-> "partidas", linhas |-> <<pAdversario(adv)>>]
  /\ pc = "get_partidas"
  /\ fila = <<>>
  /\ tx = <<>>
  /\ impresso = NadaImpresso
  /\ hoje = 1
  /\ execucao = 1
  /\ resp = SemResposta
  /\ coleta = SemColeta

NextParse ==
  \/ get_partidas
  \/ executa_partida
  \/ commit_partidas

SpecParse == InitParse /\ [][NextParse]_vars

\* the opponent cell of the row of the batch
CelulaAdversario == lote.linhas[1].cols[7]

\* C19: an opponent cell "Name (Rank.)" is stored as the name, trimmed, and
\* the rank as an integer; a cell without '(' or with a rank that is no number
\* is stored with the name and a null rank; no opponent cell makes the call
\* raise.
C19_Adversario ==
  /\ pc # "levantou"
  /\ pc = "fim" =>
       /\ Len(partidas) = 1
       /\ \A nome \in Nomes :
            /\ \A rank \in 1..MaxRank :
                 CelulaAdversario \in { NomeERank(nome, rank),
                                        nome \o <<"(">> \o Algarismos(rank) \o <<".", ")">> } =>
                   /\ partidas[1].adversario = Val(nome)
                   /\ partidas[1].ranking_adversario = Val(rank)
            /\ CelulaAdversario \in { nome, nome \o <<" ", "(", "x", ".", ")">> } =>
                 /\ partidas[1].adversario = Val(nome)
                 /\ IsNull(partidas[1].ranking_adversario)

\* "Palmeiras (2.)" stored as Palmeiras, 2
C19_Witness ==
  /\ pc = "fim"
  /\ CelulaAdversario = <<"P", "a", "l", "m", "e", "i", "r", "a", "s", " ", "(", "2", ".", ")">>
  /\ partidas[1].adversario = Val(<<"P", "a", "l", "m", "e", "i", "r", "a", "s">>)
  /\ partidas[1].ranking_adversario = Val(2)


(***************************************************************************)
(* Claims on rows of one batch that share a natural key (SpecIngest).      *)
(***************************************************************************)
\* the indexes of df whose key an earlier row of df has and no later row has
UltimasRepetidas(df, Conflito(_, _)) ==
  { k \in 1..Len(df) :
      /\ \E j \in 1..(k - 1) : Conflito(df[j], df[k])
      /\ \A j \in (k + 1)..Len(df) : ~Conflito(df[j], df[k]) }

\* C20: after a call has committed a batch in which several rows have the
\* same natural key, the table holds exactly one record of that key, and all
\* its columns but the id are those of the last such row of the batch; the
\* call does not raise.
C20_UltimaVence ==
  /\ Commitou =>
       LET df == LimpaConverte(Linhas(lote.linhas, hoje)) IN
       \A k \in UltimasRepetidas(df, ConflitoPartida) :
         /\ Cardinality({ i \in 1..Len(partidas) : ConflitoPartida(partidas[i], df[k]) }) = 1
         /\ \A i \in 1..Len(partidas) :
              ConflitoPartida(partidas[i], df[k]) => partidas[i] = df[k] @@ [id |-> i]
  /\ (lote.tipo = "tecnicos" /\ pc = "fim" /\ ~IsNull(impresso.atualizadas)) =>
       LET df == FiltraTecnicos(Dados(lote.linhas), hoje) IN
       \A k \in UltimasRepetidas(df, ConflitoTecnico) :
         /\ Cardinality({ j \in 1..Len(tecnicos) : ConflitoTecnico(tecnicos[j], df[k]) }) = 1
         /\ \A j \in 1..Len(tecnicos) :
              ConflitoTecnico(tecnicos[j], df[k]) => tecnicos[j] = df[k] @@ [id |-> j]


(***************************************************************************)
(* Claims on what the tables hold after any calls (SpecIngest).            *)
(***************************************************************************)
\* the outcome the goals of a record give: V, E or D when both are present,
\* null when one is missing
ResultadoCoerente(r) ==
  IF ~IsNull(r.gols) /\ ~IsNull(r.gols_adversario)
  THEN r.resultado = Val(IF r.gols[1] > r.gols_adversario[1] THEN "V"
                         ELSE IF r.gols[1] = r.gols_adversario[1] THEN "E" ELSE "D")
  ELSE IsNull(r.resultado)

\* C21: every record of partidas, committed or written by the running call
\* and not yet committed, has the outcome that its own goals give: V, E or D
\* by their comparison when both are present, null when either is missing.
C21_ResultadoCoerente ==
  /\ \A i \in 1..Len(partidas) : ResultadoCoerente(partidas[i])
  /\ pc = "salva_partidas" => \A i \in 1..Len(tx) : ResultadoCoerente(tx[i])

\* a call has committed an update that turned a record with both goals and
\* an outcome into a record with one goal missing
C21_Witness ==
  /\ Commitou
  /\ execucao = 1
  /\ \E i \in 1..Len(partidas) :
       /\ ~IsNull(partidas[i].gols_adversario)
       /\ IsNull(partidas[i].gols)
       /\ partidas[i].dt_coleta = hoje
       /\ \E k \in 1..Len(lote.linhas) : lote.linhas[k] = pEmpate


\* C22: every record of tecnicos has a non-null dt_inicio on or after the
\* cutoff date, and a dt_fim, when it has one, that is not before dt_inicio.
C22_DatasDoTecnico ==
  \A j \in 1..Len(tecnicos) :
    /\ ~IsNull(tecnicos[j].dt_inicio)
    /\ tecnicos[j].dt_inicio[1] >= DataCorte
    /\ ~IsNull(tecnicos[j].dt_fim) => tecnicos[j].dt_inicio[1] <= tecnicos[j].dt_fim[1]

\* the part of C22 on dt_inicio alone
C22_InicioAposCorte ==
  \A j \in 1..Len(tecnicos) :
    ~IsNull(tecnicos[j].dt_inicio) /\ tecnicos[j].dt_inicio[1] >= DataCorte


(***************************************************************************)
(* Claims on the groups of GET /estatisticas (SpecApi).                    *)
(***************************************************************************)
RECURSIVE SomaJogos(_)
SomaJogos(grupos) ==
  IF grupos = <<>> THEN 0 ELSE Head(grupos).jogos + SomaJogos(Tail(grupos))

\* the stored matches with an outcome
PartidasComResultado == { i \in 1..Len(partidas) : ~IsNull(partidas[i].resultado) }

\* C23: the games of the groups of GET /estatisticas sum to the number of
\* stored matches with a non-null outcome, whatever tenures are stored: each
\* such match is counted in exactly one group.
C23_CadaPartidaUmGrupo ==
  (resp.rota = "estatisticas" /\ resp.status = 200) =>
    SomaJogos(resp.estatisticas) = Cardinality(PartidasComResultado)

\* the same sum when no stored match has two active tenures
C23_SemSobreposicao ==
  (/\ resp.rota = "estatisticas" /\ resp.status = 200
   /\ \A i \in PartidasComResultado : Cardinality(AtivosEm(partidas[i])) <= 1) =>
    SomaJogos(resp.estatisticas) = Cardinality(PartidasComResultado)


(***************************************************************************)
(* SpecFalha: the calls of SpecIngest on a database whose statements may   *)
(* fail: any cursor.execute of the loop, or conn.commit(), may raise       *)
(* sqlite3.Error (database is locked, disk I/O error); the exception       *)
(* leaves the with block through get_db_connection's finally.              *)
(***************************************************************************)
erro_partida ==
  /\ pc = "salva_partidas"
  /\ pc' = "levantou"
  /\ partidas' = Fecha(partidas, tx)
  /\ tx' = partidas'
  /\ fila' = <<>>
  /\ UNCHANGED << tecnicos, lote, impresso, hoje, execucao, resp, coleta >>

erro_tecnico ==
  /\ pc = "salva_tecnicos"
  /\ pc' = "levantou"
  /\ tecnicos' = Fecha(tecnicos, tx)
  /\ tx' = tecnicos'
  /\ fila' = <<>>
  /\ UNCHANGED << partidas, lote, impresso, hoje, execucao, resp, coleta >>

NextFalha ==
  \/ get_partidas
  \/ executa_partida
  \/ commit_partidas
  \/ get_tecnicos
  \/ executa_tecnico
  \/ commit_tecnicos
  \/ nova_chamada
  \/ erro_partida
  \/ erro_tecnico

SpecFalha == InitIngest /\ [][NextFalha]_vars

\* the step is the conn.commit() of a call returning
PassoCommit == pc \in {"salva_partidas", "salva_tecnicos"} /\ pc' = "fim"

\* C24: no step of a call but its final commit changes the stored matches or
\* the stored tenures; so when a call raises after some of its upserts ran,
\* both tables are those of before the call.
C24_FalhaNaoDeixaRastro ==
  [][ ~PassoCommit => (partidas' = partidas /\ tecnicos' = tecnicos) ]_vars

\* a call on matches has raised after its first upsert, which changed the
\* record of a stored match, ran: a later row of df has a date that cannot be
\* bound
C24_Witness ==
  /\ pc = "levantou"
  /\ lote.tipo = "partidas"
  /\ ~IsNull(impresso.extraidas)
  /\ LET df == LimpaConverte(Linhas(lote.linhas, hoje)) IN
     /\ Len(df) >= 2
     /\ ~BindLevanta(df[1])
     /\ \E i \in 1..Len(partidas) : ConflitoPartida(partidas[i], df[1])
     /\ UpsertPartida(partidas, df[1]) # partidas
     /\ BindLevanta(df[2])

\* a call on tenures has executed upserts that changed the table its
\* connection sees and has rows left to execute, any of which may raise
C24_WitnessTecnicos ==
  /\ pc = "salva_tecnicos"
  /\ tx # tecnicos
  /\ fila # <<>>


(***************************************************************************)
(* SpecWorker: worker.py. `while True: init_db(); get_partidas();          *)
(* get_tecnicos(); time.sleep(...)` with no try: an exception of a call    *)
(* leaves the loop and ends the process. Each call fetches what the site   *)
(* serves at that moment.                                                  *)
(***************************************************************************)
LinhasPartidasWorker == { pCasa, pEmpate, pCasaSemPlacar, pSemData }

LinhasTecnicosWorker == { tArtur, tBruno, tCurta }

InitWorker ==
  /\ partidas = <<>>
  /\ tecnicos = <<>>
  /\ pc = "init_db"
  /\ lote = [tipo |-> "partidas", linhas |-> <<>>]
  /\ fila = <<>>
  /\ tx = <<>>
  /\ impresso = NadaImpresso
  /\ hoje = 1
  /\ execucao = 1
  /\ resp = SemResposta
  /\ coleta = SemColeta

\* init_db(): CREATE TABLE IF NOT EXISTS changes no row; get_partidas() is
\* called next, on the page the site serves
init_db ==
  /\ pc = "init_db"
  /\ pc' = "get_partidas"
  /\ \E l \in SeqsAte(LinhasPartidasWorker, MaxLote) :
       lote' = [tipo |-> "partidas", linhas |-> l]
  /\ impresso' = NadaImpresso
  /\ UNCHANGED << partidas, tecnicos, fila, tx, hoje, execucao, resp, coleta >>

\* get_partidas() has returned: get_tecnicos() is called
retorna_partidas ==
  /\ pc = "fim" /\ lote.tipo = "partidas"
  /\ pc' = "get_tecnicos"
  /\ \E l \in SeqsAte(LinhasTecnicosWorker, MaxLote) :
       lote' = [tipo |-> "tecnicos", linhas |-> l]
  /\ impresso' = NadaImpresso
  /\ UNCHANGED << partidas, tecnicos, fila, tx, hoje, execucao, resp, coleta >>

\* get_tecnicos() has returned: time.sleep(INTERVALO_MINUTOS * 60) starts
retorna_tecnicos ==
  /\ pc = "fim" /\ lote.tipo = "tecnicos"
  /\ pc' = "sleep"
  /\ UNCHANGED << partidas, tecnicos, lote, fila, tx, impresso, hoje, execucao, resp,
                  coleta >>

\* time.sleep returns a day later: the loop body starts again
sleep ==
  /\ pc = "sleep"
  /\ execucao < MaxExecucoes
  /\ pc' = "init_db"
  /\ execucao' = execucao + 1
  /\ hoje' = hoje + 1
  /\ UNCHANGED << partidas, tecnicos, lote, fila, tx, impresso, resp, coleta >>

NextWorker ==
  \/ init_db
  \/ get_partidas
  \/ executa_partida
  \/ commit_partidas
  \/ retorna_partidas
  \/ get_tecnicos
  \/ executa_tecnico
  \/ commit_tecnicos
  \/ retorna_tecnicos
  \/ sleep

\* the statements of the loop itself are fair: the call after a return is
\* made and time.sleep returns; nothing is assumed on the calls' own steps
SpecWorker ==
  /\ InitWorker /\ [][NextWorker]_vars
  /\ WF_vars(init_db) /\ WF_vars(retorna_partidas)
  /\ WF_vars(retorna_tecnicos) /\ WF_vars(sleep)

\* a call of the cycle has ended, by returning or by raising, and the cycle
\* is not the last one the model follows
CicloAcabou ==
  /\ execucao < MaxExecucoes
  /\ \/ pc = "levantou"
     \/ pc = "sleep"

\* get_tecnicos starts only on the return of the cycle's get_partidas
C25_Ordem ==
  [][ pc' = "get_tecnicos" => (pc = "fim" /\ lote.tipo = "partidas") ]_vars

\* C25: in every cycle of the worker get_tecnicos starts only after
\* get_partidas has returned, and after every cycle, whether its calls
\* returned or raised, another cycle starts (init_db is called again).
C25_CicloDoWorker ==
  /\ [][ pc' = "get_tecnicos" => (pc = "fim" /\ lote.tipo = "partidas") ]_vars
  /\ CicloAcabou ~> (pc = "init_db")

\* the next cycle starts after every cycle in which no call raised
C25_SemExcecao ==
  (pc = "sleep" /\ execucao < MaxExecucoes) ~> (pc = "init_db")


(***************************************************************************)
(* Claims on the page arithmetic of the three paginated listings (SpecApi).*)
(***************************************************************************)
ListagemPaginada ==
  resp.rota \in {"partidas", "partidas_ano", "partidas_tecnico"} /\ resp.status = 200

\* ceil(T / s), 0 when T = 0
Teto(T, s) == IF T = 0 THEN 0 ELSE ((T - 1) \div s) + 1

\* min(s, max(0, T - (p - 1) * s))
LinhasDaPagina(T, p, s) ==
  LET resto == T - (p - 1) * s IN
  IF resto <= 0 THEN 0 ELSE IF resto < s THEN resto ELSE s

\* total_paginas, has_next and the number of rows of a listing
AritmeticaDaPagina ==
  /\ resp.total_paginas = Teto(resp.total_registros, resp.page_size)
  /\ resp.has_next = (resp.page < Teto(resp.total_registros, resp.page_size))
  /\ Len(resp.partidas) = LinhasDaPagina(resp.total_registros, resp.page, resp.page_size)

\* C26: every paginated listing of matches with total T, page p and page
\* size s has total_paginas = ceil(T / s) (0 when T = 0), has_next exactly
\* when p < total_paginas, has_previous exactly when p > 1, and
\* min(s, max(0, T - (p - 1) * s)) rows.
C26_Paginacao ==
  ListagemPaginada =>
    /\ AritmeticaDaPagina
    /\ "has_previous" \in DOMAIN resp
    /\ resp.has_previous = (resp.page > 1)

\* the same with the flag read under the key each listing gives it
C26_ComChaveDaRota ==
  ListagemPaginada =>
    /\ AritmeticaDaPagina
    /\ IF resp.rota = "partidas_tecnico"
       THEN resp.has_prev = (resp.page > 1)
       ELSE resp.has_previous = (resp.page > 1)

=============================================================================
